---- MODULE Spec2Model ----
(***************************************************************************)
(* DraftNote (src/src/App.tsx): a contentEditable drafting surface with    *)
(* inline image widgets, a debounced localStorage save and a Word export.  *)
(*                                                                         *)
(* Five specifications share the variables below:                          *)
(*   Spec        text editing: keys, compositions, the clear dialog and    *)
(*               the deferred callbacks                                    *)
(*   SpecImage   image widgets: pastes, reads in flight, delete clicks     *)
(*   SpecTimed   typing with the clock: the debounced save                 *)
(*   SpecFit     the aspect-fit sizing step of the export                  *)
(*   SpecExport  the export traversal (processNode) over snapshot trees    *)
(***************************************************************************)
EXTENDS Integers, Sequences, FiniteSets, TLC

VARIABLES
    live,             \* editorRef.current.childNodes: sequence of DOM nodes
    sel,              \* window.getSelection(): the document's one range
    content,          \* React state `content` (the canonical snapshot)
    isComposing,      \* React state `isComposing` of the latest render
    imeActive,        \* the browser is between compositionstart/compositionend
    showClearConfirm, \* React state `showClearConfirm`
    notification,     \* React state `notification`
    notifTimers,      \* pending setTimeout(..., 3000) of showNotification
    tasks,            \* pending setTimeout(..., 0) callbacks, in FIFO order
    reads,            \* FileReader reads in flight (closure of the paste render)
    saveTimers,       \* pending auto-save timers of the [content] effect
    stored,           \* localStorage[STORAGE_KEY]
    now,              \* Date.now() in ms since the page was opened
    mounted,          \* the mount effects have run
    nextImageId,      \* source of imageId (Date.now() + random: never repeats)
    hist,             \* what the last step did (observation only)
    fit,              \* SpecFit: the sizing step's input and result
    exp               \* SpecExport: handleExportWord's input and result

editorVars == <<live, sel, content, isComposing, imeActive,
                showClearConfirm, notification, notifTimers, tasks, reads,
                saveTimers, stored, now, mounted, nextImageId, hist>>
vars == <<live, sel, content, isComposing, imeActive,
          showClearConfirm, notification, notifTimers, tasks, reads,
          saveTimers, stored, now, mounted, nextImageId, hist, fit, exp>>

(***************************************************************************)
(* Generic helpers                                                         *)
(***************************************************************************)
Min(a, b) == IF a <= b THEN a ELSE b

Max(a, b) == IF a >= b THEN a ELSE b

RECURSIVE Concat(_)
Concat(ss) == IF ss = <<>> THEN <<>> ELSE Head(ss) \o Concat(Tail(ss))

SeqsUpTo(S, n) == UNION {[1..k -> S] : k \in 0..n}

(***************************************************************************)
(* Export: text helpers (String.prototype.trim / split)                    *)
(***************************************************************************)
\* The characters String.prototype.trim strips, among the model's alphabet.
\* U+200B (the sentinel after a widget, "ZWSP" here) is not white space.
WhiteSpace == {" ", "\n"}

RECURSIVE TrimStart(_)
TrimStart(s) ==
    IF s # <<>> /\ Head(s) \in WhiteSpace THEN TrimStart(Tail(s)) ELSE s

RECURSIVE TrimEnd(_)
TrimEnd(s) ==
    IF s # <<>> /\ s[Len(s)] \in WhiteSpace
    THEN TrimEnd(SubSeq(s, 1, Len(s) - 1))
    ELSE s

Trim(s) == TrimEnd(TrimStart(s))

\* s.split("\n"): the pieces between line breaks, empty pieces included.
RECURSIVE SplitLines(_)
SplitLines(s) ==
    IF \A i \in 1..Len(s) : s[i] # "\n"
    THEN <<s>>
    ELSE LET i == CHOOSE j \in 1..Len(s) :
                      s[j] = "\n" /\ \A m \in 1..(j - 1) : s[m] # "\n"
         IN  <<SubSeq(s, 1, i - 1)>> \o SplitLines(SubSeq(s, i + 1, Len(s)))

(***************************************************************************)
(* Export: the portable document model and the snapshot tree               *)
(***************************************************************************)
\* new Paragraph({children: [new TextRun(text)]})
TextParagraph(text) == [kind |-> "text", text |-> text, width |-> 0, height |-> 0]

\* new Paragraph({children: [new ImageRun({data, transformation})]})
ImageParagraph(size) ==
    [kind |-> "image", text |-> <<>>, width |-> size.width, height |-> size.height]

\* Nodes of tempDiv after tempDiv.innerHTML = content.htmlContent.
\*   src: "ok" data:image/ URI with valid base64, "malformed" data:image/ URI
\*        atob rejects, "remote" any other URL, "" no src attribute
\*   nw, nh: naturalWidth/naturalHeight (0 while the image is not decoded)
\*   aw, ah: the width/height properties (0 when unset and not rendered)
TextNode(s) ==
    [tag |-> "#text", cls |-> "", text |-> s, src |-> "",
     nw |-> 0, nh |-> 0, aw |-> 0, ah |-> 0, kids |-> <<>>]

ImgNode(src, nw, nh, aw, ah) ==
    [tag |-> "IMG", cls |-> "", text |-> <<>>, src |-> src,
     nw |-> nw, nh |-> nh, aw |-> aw, ah |-> ah, kids |-> <<>>]

ElemNode(tag, cls, kids) ==
    [tag |-> tag, cls |-> cls, text |-> <<>>, src |-> "",
     nw |-> 0, nh |-> 0, aw |-> 0, ah |-> 0, kids |-> kids]

\* element.textContent: the text of every descendant, in document order.
RECURSIVE TextContent(_)
TextContent(node) ==
    IF node.tag = "#text" THEN node.text
    ELSE Concat([i \in 1..Len(node.kids) |-> TextContent(node.kids[i])])

\* element.querySelector("img"): the first IMG descendant in document order,
\* as a sequence of at most one node.
RECURSIVE DescendantImgs(_)
DescendantImgs(node) ==
    Concat([i \in 1..Len(node.kids) |->
               IF node.kids[i].tag = "IMG" THEN <<node.kids[i]>>
               ELSE DescendantImgs(node.kids[i])])

QuerySelectorImg(node) ==
    LET all == DescendantImgs(node) IN IF all = <<>> THEN <<>> ELSE <<Head(all)>>

(***************************************************************************)
(* Export: the aspect-fit sizing step                                      *)
(***************************************************************************)
MaxExportWidth == 600

MaxExportHeight == 450

DefaultWidth == 400

DefaultHeight == 300

\* a || b on numbers: a unless it is 0.
OrElse(a, b) == IF a # 0 THEN a ELSE b

OriginalWidth(img) == OrElse(img.nw, OrElse(img.aw, DefaultWidth))

OriginalHeight(img) == OrElse(img.nh, OrElse(img.ah, DefaultHeight))

NeedsScaling(w, h) == w > MaxExportWidth \/ h > MaxExportHeight

\* Math.max in place of Math.min.
RatioMax(w, h) ==
    IF MaxExportWidth * h >= MaxExportHeight * w
    THEN [num |-> MaxExportWidth, den |-> w]
    ELSE [num |-> MaxExportHeight, den |-> h]

\* ratio = Math.min(maxWidth / originalWidth, maxHeight / originalHeight),
\* kept as the fraction num/den.
Ratio(w, h) ==
    IF MaxExportWidth * h <= MaxExportHeight * w
    THEN [num |-> MaxExportWidth, den |-> w]
    ELSE [num |-> MaxExportHeight, den |-> h]

\* Math.round(d * ratio). The code multiplies IEEE doubles: when d*num/den is
\* not exactly k + 1/2 the result is the nearest integer; when it is exactly
\* k + 1/2 the rounding error of num/den decides between k + 1 (Math.round's
\* half-up, e.g. 2 * (600/800)) and k (e.g. 11 * (450/660) = 7.499...), so
\* both outcomes are kept and tieDown selects one.
RoundScaled(d, r, tieDown) ==
    LET twice == 2 * d * r.num + r.den
        k     == twice \div (2 * r.den)
    IN  IF tieDown /\ twice % (2 * r.den) = 0 THEN k - 1 ELSE k

ExportSize(w, h, tieDown) ==
    IF NeedsScaling(w, h)
    THEN [width  |-> RoundScaled(w, Ratio(w, h), tieDown),
          height |-> RoundScaled(h, Ratio(w, h), tieDown)]
    ELSE [width |-> w, height |-> h]

(***************************************************************************)
(* Export: processNode                                                     *)
(***************************************************************************)
\* The text-node branch: trim the node's text, split it on line breaks and
\* push one paragraph per line whose trim() is non-empty; the run holds the
\* line as split (the code passes `line`, not `line.trim()`).
TextNodeParagraphs(s) ==
    LET text  == Trim(s)
        lines == IF text = <<>> THEN <<>> ELSE SplitLines(text)
    IN  Concat([i \in 1..Len(lines) |->
                   IF Trim(lines[i]) # <<>>
                   THEN <<TextParagraph(lines[i])>>
                   ELSE <<>>])

\* atob accepting every payload.
DecodeThrowsNever(src) == FALSE

\* atob(src.split(",")[1]) throws on a payload that is not base64.
DecodeThrows(src) == src = "malformed"

\* src && src.startsWith("data:image/")
IsDataImage(src) == src \in {"ok", "malformed"}

\* The body of both image branches (IMG element, img of an inline-image
\* span): size the image, decode its payload, push one image paragraph. A
\* throw inside the try block is caught and logged: nothing is pushed.
ImageParagraphs(img, tieDown) ==
    IF IsDataImage(img.src) /\ ~DecodeThrows(img.src)
    THEN <<ImageParagraph(ExportSize(OriginalWidth(img), OriginalHeight(img),
                                     tieDown))>>
    ELSE <<>>

\* Block containers handled like any other element: no recursion.
RECURSIVE processNodeNoRecursion(_, _)
processNodeNoRecursion(node, tieDown) ==
    IF node.tag = "#text" THEN TextNodeParagraphs(node.text)
    ELSE IF node.tag = "IMG" THEN ImageParagraphs(node, tieDown)
    ELSE IF node.tag = "SPAN" /\ node.cls = "inline-image" THEN
        LET img == QuerySelectorImg(node)
        IN  IF img # <<>> THEN ImageParagraphs(img[1], tieDown) ELSE <<>>
    ELSE
        LET text == Trim(TextContent(node))
        IN  IF text # <<>> THEN <<TextParagraph(text)>> ELSE <<>>

RECURSIVE processNode(_, _)
processNode(node, tieDown) ==
    IF node.tag = "#text" THEN TextNodeParagraphs(node.text)
    ELSE IF node.tag = "IMG" THEN ImageParagraphs(node, tieDown)
    ELSE IF node.tag = "SPAN" /\ node.cls = "inline-image" THEN
        LET img == QuerySelectorImg(node)
        IN  IF img # <<>> THEN ImageParagraphs(img[1], tieDown) ELSE <<>>
    ELSE IF node.tag \in {"DIV", "P"} THEN
        Concat([i \in 1..Len(node.kids) |-> processNode(node.kids[i], tieDown)])
    ELSE
        LET text == Trim(TextContent(node))
        IN  IF text # <<>> THEN <<TextParagraph(text)>> ELSE <<>>

\* for (const childNode of Array.from(tempDiv.childNodes)) await processNode(..),
\* skipped altogether when content.htmlContent is the empty string.
Traverse(html, tieDown) ==
    IF html # <<>>
    THEN Concat([i \in 1..Len(html) |-> processNode(html[i], tieDown)])
    ELSE <<>>

\* The fallback paragraph left out.
WithEmptyFallbackNone(children) == children

\* if (children.length === 0) children.push(new Paragraph(TextRun(" ")))
WithEmptyFallback(children) ==
    IF Len(children) = 0 THEN <<TextParagraph(<<" ">>)>> ELSE children

(***************************************************************************)
(* Editor: the live DOM tree under editorRef.current                       *)
(***************************************************************************)
\* A child of the editor: a Text node or an inline image widget (the span
\* built by handlePaste, id its data-image-id).  onclick is the handler of
\* the widget's delete button: "none", or the closure of the render that
\* built the widget, which holds that render's isComposing.
TextN(d) == [k |-> "t", id |-> 0, d |-> d, onclick |-> "none"]

Closure(composing) == IF composing THEN "isComposing=true" ELSE "isComposing=false"

WidgetN(id, onclick) == [k |-> "w", id |-> id, d |-> <<>>, onclick |-> onclick]

NodeLen(n) == IF n.k = "w" THEN 1 ELSE Len(n.d)

\* Flat offset at which child i starts (i may be Len(nodes) + 1).
RECURSIVE FlatStart(_, _)
FlatStart(nodes, i) ==
    IF i <= 1 THEN 0 ELSE FlatStart(nodes, i - 1) + NodeLen(nodes[i - 1])

FlatLen(nodes) == FlatStart(nodes, Len(nodes) + 1)

RemoveAt(seq, i) == SubSeq(seq, 1, i - 1) \o SubSeq(seq, i + 1, Len(seq))

InsertAt(seq, i, x) == SubSeq(seq, 1, i - 1) \o <<x>> \o SubSeq(seq, i, Len(seq))

\* Boundary points (node, offset).  The node is named by where it is:
\*   n = 0   the editor element, o counts children
\*   n > 0   the Text node that is child n of the editor, o counts characters
\*   n = -1  a Text node no longer in the tree, len its data length
\* A reference held across a mutation (a saved cursor position) is carried
\* along by Remap below, so that it keeps naming the same node object.
BP(n, o) == [n |-> n, o |-> o, len |-> 0]

FlatPos(nodes, bp) ==
    IF bp.n = 0 THEN FlatStart(nodes, bp.o + 1) ELSE FlatStart(nodes, bp.n) + bp.o

\* Tree order of boundary points of attached nodes.
Key(bp) == IF bp.n = 0 THEN 2 * bp.o ELSE 2 * bp.n - 1

Before(a, b) ==
    \/ Key(a) < Key(b)
    \/ Key(a) = Key(b) /\ a.n # 0 /\ a.o < b.o

\* The selection: none (rangeCount = 0), a range outside the editor, or a
\* range between two boundary points inside the editor.
NoSelection == [kind |-> "none", s |-> BP(0, 0), e |-> BP(0, 0)]

OutsideSelection == [kind |-> "out", s |-> BP(0, 0), e |-> BP(0, 0)]

RangeSel(s, e) == [kind |-> "in", s |-> s, e |-> e]

Caret(bp) == RangeSel(bp, bp)

Collapsed(selection) == selection.s = selection.e

\* Where the browser puts a caret for a flat position: inside the first Text
\* node that holds the position, else between two children of the editor.
CanonBP(nodes, p) ==
    LET holds(i) == /\ nodes[i].k = "t"
                    /\ FlatStart(nodes, i) <= p
                    /\ p <= FlatStart(nodes, i + 1)
    IN  IF \E i \in 1..Len(nodes) : holds(i)
        THEN LET i == CHOOSE j \in 1..Len(nodes) :
                          holds(j) /\ \A m \in 1..(j - 1) : ~holds(m)
             IN  BP(i, p - FlatStart(nodes, i))
        ELSE BP(0, Cardinality({i \in 1..Len(nodes) : FlatStart(nodes, i + 1) <= p}))

\* What a mutation does to the children it found: map[i].to is the new index
\* of old child i, or 0 when it left the tree with map[i].len characters.
Kept(i) == [to |-> i, len |-> 0]

Gone(len) == [to |-> 0, len |-> len]

IdMap(nodes) == [i \in 1..Len(nodes) |-> Kept(i)]

\* Children from index `at` on move `by` places.
ShiftMap(nodes, at, by) ==
    [i \in 1..Len(nodes) |-> IF i >= at THEN Kept(i + by) ELSE Kept(i)]

ComposeMap(m1, m2) ==
    [i \in 1..Len(m1) |-> IF m1[i].to = 0 THEN m1[i] ELSE m2[m1[i].to]]

Remap(bp, map) ==
    IF bp.n <= 0 THEN bp
    ELSE IF map[bp.n].to = 0 THEN [n |-> -1, o |-> bp.o, len |-> map[bp.n].len]
    ELSE [bp EXCEPT !.n = map[bp.n].to]

\* The saved cursor positions of the pending callbacks after a mutation.
RemapTasks(q, map) ==
    [i \in 1..Len(q) |->
        [q[i] EXCEPT !.pos.s = Remap(@, map), !.pos.e = Remap(@, map)]]

(***************************************************************************)
(* Editor: innerHTML                                                       *)
(***************************************************************************)
\* The markup is kept as a sequence of tokens: one per character of text and
\* one per widget span (its data-image-id; the img and the delete button are
\* inside).  The model's alphabet holds no character innerHTML escapes.
CharTok(c) == [tag |-> "#text", ch |-> c, id |-> 0]

WidgetTok(id) == [tag |-> "span.inline-image", ch |-> "", id |-> id]

\* Reading editorRef.current.innerHTML: Text nodes lose their boundaries, and
\* a widget loses its onclick handler (a property, not an attribute).
InnerHTML(nodes) ==
    Concat([i \in 1..Len(nodes) |->
               IF nodes[i].k = "w" THEN <<WidgetTok(nodes[i].id)>>
               ELSE [j \in 1..Len(nodes[i].d) |-> CharTok(nodes[i].d[j])]])

\* Assigning editorRef.current.innerHTML: adjacent characters become one
\* Text node, a widget span comes back without a click handler.
RECURSIVE ParseHTML(_, _)
ParseHTML(html, nodes) ==
    IF html = <<>> THEN nodes
    ELSE IF Head(html).tag = "#text"
    THEN IF nodes # <<>> /\ nodes[Len(nodes)].k = "t"
         THEN ParseHTML(Tail(html),
                  [nodes EXCEPT ![Len(nodes)].d = Append(@, Head(html).ch)])
         ELSE ParseHTML(Tail(html), Append(nodes, TextN(<<Head(html).ch>>)))
    ELSE ParseHTML(Tail(html), Append(nodes, WidgetN(Head(html).id, "none")))

(***************************************************************************)
(* Editor: DOM mutations                                                   *)
(***************************************************************************)
\* Range.deleteContents on the range s..e: children wholly inside the range
\* are removed as they are, the Text nodes holding s or e lose the selected
\* part of their data, and the range collapses (DOM standard, "delete
\* contents").
DeleteContents(nodes, s, e) ==
    LET contained(i) == Key(s) <= 2 * (i - 1) /\ 2 * i <= Key(e)
        cut(i) ==
            LET n == nodes[i] IN
            IF n.k = "t" /\ i = s.n /\ i = e.n
            THEN [n EXCEPT !.d = SubSeq(n.d, 1, s.o) \o SubSeq(n.d, e.o + 1, Len(n.d))]
            ELSE IF n.k = "t" /\ i = s.n
            THEN [n EXCEPT !.d = SubSeq(n.d, 1, s.o)]
            ELSE IF n.k = "t" /\ i = e.n
            THEN [n EXCEPT !.d = SubSeq(n.d, e.o + 1, Len(n.d))]
            ELSE n
    IN  [nodes |-> Concat([i \in 1..Len(nodes) |->
                              IF contained(i) THEN <<>> ELSE <<cut(i)>>]),
         bp    |-> IF s.n = e.n \/ s.n = 0 THEN s ELSE BP(0, s.n),
         map   |-> [i \in 1..Len(nodes) |->
                      IF contained(i) THEN Gone(Len(nodes[i].d))
                      ELSE Kept(i - Cardinality({r \in 1..(i - 1) : contained(r)}))]]

\* The browser's own deletion (typing over a selection, Backspace): as
\* deleteContents, after which Text nodes left empty are dropped and the
\* caret is put at the place of the deleted range.
BrowserDelete(nodes, s, e) ==
    LET r        == DeleteContents(nodes, s, e)
        empty(i) == r.nodes[i].k = "t" /\ r.nodes[i].d = <<>>
        left     == Concat([i \in 1..Len(r.nodes) |->
                               IF empty(i) THEN <<>> ELSE <<r.nodes[i]>>])
    IN  [nodes |-> left,
         bp    |-> CanonBP(left, FlatPos(nodes, s)),
         map   |-> ComposeMap(r.map,
                      [i \in 1..Len(r.nodes) |->
                          IF empty(i) THEN Gone(0)
                          ELSE Kept(i - Cardinality({m \in 1..(i - 1) : empty(m)}))])]

\* The range around the p-th item (character or widget) of the content.
ItemRange(nodes, p) ==
    LET i == CHOOSE j \in 1..Len(nodes) :
                 FlatStart(nodes, j) < p /\ p <= FlatStart(nodes, j + 1)
    IN  IF nodes[i].k = "w"
        THEN RangeSel(BP(0, i - 1), BP(0, i))
        ELSE RangeSel(BP(i, p - FlatStart(nodes, i) - 1),
                      BP(i, p - FlatStart(nodes, i)))

\* The browser inserting a typed character at a caret: into the Text node
\* holding the caret, else into a Text node next to it, else into a new one.
BrowserInsertChar(nodes, bp, c) ==
    IF bp.n # 0 THEN
        [nodes |-> [nodes EXCEPT ![bp.n].d =
                       SubSeq(@, 1, bp.o) \o <<c>> \o SubSeq(@, bp.o + 1, Len(@))],
         bp    |-> BP(bp.n, bp.o + 1),
         map   |-> IdMap(nodes)]
    ELSE IF bp.o >= 1 /\ nodes[bp.o].k = "t" THEN
        [nodes |-> [nodes EXCEPT ![bp.o].d = Append(@, c)],
         bp    |-> BP(bp.o, Len(nodes[bp.o].d) + 1),
         map   |-> IdMap(nodes)]
    ELSE IF bp.o < Len(nodes) /\ nodes[bp.o + 1].k = "t" THEN
        [nodes |-> [nodes EXCEPT ![bp.o + 1].d = <<c>> \o @],
         bp    |-> BP(bp.o + 1, 1),
         map   |-> IdMap(nodes)]
    ELSE
        [nodes |-> InsertAt(nodes, bp.o + 1, TextN(<<c>>)),
         bp    |-> BP(bp.o + 1, 1),
         map   |-> ShiftMap(nodes, bp.o + 1, 1)]

\* node.remove() of child i seen from a live range: boundary points behind
\* the removed child move one child back.
AfterRemoval(selection, i) ==
    LET fix(bp) == IF bp.n = 0 /\ bp.o >= i THEN BP(0, bp.o - 1)
                   ELSE IF bp.n > i THEN BP(bp.n - 1, bp.o)
                   ELSE bp
    IN  IF selection.kind = "in"
        THEN RangeSel(fix(selection.s), fix(selection.e))
        ELSE selection

\* innerHTML = "" seen from a live range.
AfterEmptying(selection) ==
    IF selection.kind = "in" THEN Caret(BP(0, 0)) ELSE selection

(***************************************************************************)
(* Editor: program constants and model bounds                              *)
(***************************************************************************)
DebounceMs == 1000

NotificationMs == 3000

\* One step of the model clock, in ms.
TickMs == 500

\* The clock stops advancing after this many steps.
MaxTicks == 6

MaxNow == MaxTicks * TickMs

\* Typed characters in the editor at one time.
MaxChars == 2

\* Images pasted in one session.
MaxImages == 1

\* Pending setTimeout(..., 0) callbacks.
MaxTasks == 2

\* Clipboard items of one paste.
MaxItems == 2

\* Changes counted within one burst.
MaxBurst == 2

TypedChars == {"a"}

ZWSP == "ZWSP"

(***************************************************************************)
(* Editor: inserting a pasted image (reader.onload)                        *)
(***************************************************************************)
\* range.insertNode(node) on a collapsed range at bp: a Text node holding bp
\* is split there (a new Text node takes the data behind bp) and the node
\* goes between the halves; at an editor boundary point it goes before the
\* child at that offset.  at is the index the node ends up at.
RangeInsertNode(nodes, bp, node) ==
    IF bp.n # 0 THEN
        LET t == nodes[bp.n]
        IN  [nodes |-> SubSeq(nodes, 1, bp.n - 1)
                        \o <<[t EXCEPT !.d = SubSeq(t.d, 1, bp.o)], node,
                             TextN(SubSeq(t.d, bp.o + 1, Len(t.d)))>>
                        \o SubSeq(nodes, bp.n + 1, Len(nodes)),
             at    |-> bp.n + 1,
             map   |-> ShiftMap(nodes, bp.n + 1, 2)]
    ELSE [nodes |-> InsertAt(nodes, bp.o + 1, node),
          at    |-> bp.o + 1,
          map   |-> ShiftMap(nodes, bp.o + 1, 1)]

\* The space put in front of the zero-width placeholder, the caret left in
\* front of the space.
PasteInsertSwapped(nodes, selection, wid, onclick) ==
    LET del == DeleteContents(nodes, selection.s, selection.e)
        w   == RangeInsertNode(del.nodes, del.bp, WidgetN(wid, onclick))
        n3  == InsertAt(w.nodes, w.at + 1, TextN(<<" ">>))
        n4  == InsertAt(n3, w.at + 2, TextN(<<ZWSP>>))
    IN  [nodes |-> n4,
         sel   |-> Caret(BP(0, w.at + 1)),
         map   |-> ComposeMap(ComposeMap(del.map, w.map),
                              ShiftMap(w.nodes, w.at + 1, 2))]

\* range.deleteContents(); range.insertNode(imgWrapper);
\* range.setStartAfter(imgWrapper); range.insertNode(textNode);   U+200B
\* range.setStartAfter(textNode);   range.insertNode(spaceNode);  " "
\* range.setStartAfter(spaceNode);  range.collapse(true);
\* selection.removeAllRanges(); selection.addRange(range)
PasteInsert(nodes, selection, wid, onclick) ==
    LET del == DeleteContents(nodes, selection.s, selection.e)
        w   == RangeInsertNode(del.nodes, del.bp, WidgetN(wid, onclick))
        n3  == InsertAt(w.nodes, w.at + 1, TextN(<<ZWSP>>))
        n4  == InsertAt(n3, w.at + 2, TextN(<<" ">>))
    IN  [nodes |-> n4,
         sel   |-> Caret(BP(0, w.at + 2)),
         map   |-> ComposeMap(ComposeMap(del.map, w.map),
                              ShiftMap(w.nodes, w.at + 1, 2))]

(***************************************************************************)
(* Editor: the selection anchor (saveCursorPosition/restoreCursorPosition) *)
(***************************************************************************)
NullPosition == [valid |-> FALSE, s |-> BP(0, 0), e |-> BP(0, 0)]

saveCursorPosition(selection) ==
    IF selection.kind = "in"
    THEN [valid |-> TRUE, s |-> selection.s, e |-> selection.e]
    ELSE NullPosition

Attached(bp) == bp.n >= 0

\* node.length of a boundary point's node, attached or not.
NodeLength(nodes, bp) ==
    IF bp.n = 0 THEN Len(nodes)
    ELSE IF bp.n > 0 THEN Len(nodes[bp.n].d)
    ELSE bp.len

\* range.setStart/setEnd throw IndexSizeError when the offset exceeds the
\* node's length (the only throw in the try block).
RestoreThrows(position, nodes) ==
    \/ position.s.o > NodeLength(nodes, position.s)
    \/ position.e.o > NodeLength(nodes, position.e)

\* The selection restoreCursorPosition leaves.  No throw: setEnd on a node of
\* another tree, or in front of the start, moves the start to the end;
\* removeAllRanges empties the selection and addRange ignores a range that is
\* not in the document.  Throw: the catch block collapses the selection to
\* the end of the editor.
restoreCursorPosition(position, nodes, selection) ==
    IF ~position.valid THEN selection
    ELSE IF RestoreThrows(position, nodes) THEN Caret(BP(0, Len(nodes)))
    ELSE IF ~Attached(position.e) THEN NoSelection
    ELSE IF ~Attached(position.s) THEN Caret(position.e)
    ELSE IF Before(position.e, position.s) THEN Caret(position.e)
    ELSE RangeSel(position.s, position.e)

(***************************************************************************)
(* Editor: React state, effects and timers                                 *)
(***************************************************************************)
\* useState's initial content: { htmlContent: "", timestamp: Date.now() }
InitialContent == [htmlContent |-> <<>>, timestamp |-> 0]

\* The previous htmlContent kept instead of reading the live tree.
SnapshotStale(nodes) == [htmlContent |-> content.htmlContent, timestamp |-> now]

\* { ...prev, htmlContent: editorRef.current.innerHTML, timestamp: Date.now() }
Snapshot(nodes) == [htmlContent |-> InnerHTML(nodes), timestamp |-> now]

\* JSON.stringify(content) and JSON.parse(saved) on a well-formed draft.
JSONStringify(c) == <<"htmlContent", c.htmlContent, "timestamp", c.timestamp>>

\* A parse that loses the markup.
JSONParseEmpty(text) == [htmlContent |-> <<>>, timestamp |-> text[4]]

JSONParse(text) == [htmlContent |-> text[2], timestamp |-> text[4]]

Absent == [present |-> FALSE, text |-> <<>>]

Stored(text) == [present |-> TRUE, text |-> text]

\* The effect's cleanup left out.
clearTimeoutNone(timers) == timers

\* return () => clearTimeout(timer): the cleanup of the [content] effect.
clearTimeout(timers) == <<>>

\* The effect keeping a timer that is already pending.
ArmSaveKeepOld(timers, value) ==
    IF timers = <<>> THEN <<[rem |-> DebounceMs, value |-> value]>> ELSE timers

\* The [content] effect after a render with a new content object: the
\* previous timer is cleared, a new one is armed with this render's content.
ArmSave(timers, value) ==
    Append(clearTimeout(timers), [rem |-> DebounceMs, value |-> value])

\* setTimeout(() => restoreCursorPosition(cursorPosition), 0).  The code keeps
\* no handle of earlier callbacks; superseded only records that a later
\* non-null capture was taken while this one was still pending.
ScheduleRestore(q, position) ==
    Append([i \in 1..Len(q) |->
               IF q[i].type = "restore" /\ position.valid
               THEN [q[i] EXCEPT !.superseded = TRUE]
               ELSE q[i]],
           [type |-> "restore", pos |-> position, superseded |-> FALSE])

\* The deferred setContent left out.
ScheduleFinalizeNone(q) == q

\* setTimeout(() => setContent(...), 0) of handleCompositionEnd.
ScheduleFinalize(q) ==
    Append(q, [type |-> "finalize", pos |-> NullPosition, superseded |-> FALSE])

\* showNotification: the notification is replaced and one more dismiss timer
\* is started; earlier timers keep running.  Timers with the same remaining
\* time do the same thing at the same instant and are kept once.
ShownNotification(message, type) ==
    [message |-> message, type |-> type, visible |-> TRUE]

NoNotification == [message |-> "", type |-> "info", visible |-> FALSE]

AddDismissTimer(timers) == timers \cup {NotificationMs}

(***************************************************************************)
(* Editor: observation of the last step                                    *)
(***************************************************************************)
\*   op           the operation that ran
\*   pass         it re-read the live tree and replaced the snapshot
\*   ime          a composition was in progress when it ran
\*   pre, ps, pe  innerHTML and the selection's flat offsets before it
\*   wid          the widget it inserted or removed
\*   anchor, superseded, gone, stale   (restore) the anchor was non-null, a
\*                later capture existed, a node of it was out of the tree,
\*                an offset of it exceeded its node's length
\*   sinceChange  ms since content last changed, up to DebounceMs
\*   burstChanges changes of content in the current burst, up to MaxBurst
\*   burstWrites  localStorage.setItem calls since the current burst began
\*   tried, copied  (copy) the clipboard mechanisms it called, in order, and
\*                whether one of them put the draft on the clipboard
\*   loaded       what localStorage held when the mount effects ran
\*   edited       the user has changed the draft since the mount effects ran
\*   shows        showNotification has been called since the page was opened
\*   sinceShow    ms since its latest call, up to NotificationMs
Obs(op) ==
    [op |-> op, pass |-> FALSE, ime |-> imeActive, pre |-> <<>>, ps |-> 0,
     pe |-> 0, wid |-> 0, anchor |-> FALSE, superseded |-> FALSE,
     gone |-> FALSE, stale |-> FALSE,
     sinceChange |-> hist.sinceChange, burstChanges |-> hist.burstChanges,
     burstWrites |-> hist.burstWrites,
     tried |-> <<>>, copied |-> FALSE,
     loaded |-> hist.loaded, edited |-> hist.edited,
     shows |-> hist.shows, sinceShow |-> hist.sinceShow]

\* The observation of a page that has just been opened.
InitHist ==
    [op |-> "init", pass |-> FALSE, ime |-> FALSE, pre |-> <<>>, ps |-> 0,
     pe |-> 0, wid |-> 0, anchor |-> FALSE, superseded |-> FALSE,
     gone |-> FALSE, stale |-> FALSE, sinceChange |-> 0, burstChanges |-> 0,
     burstWrites |-> 0, tried |-> <<>>, copied |-> FALSE, loaded |-> Absent,
     edited |-> FALSE, shows |-> FALSE, sinceShow |-> 0]

\* The step replaced `content`: a change that comes DebounceMs or more after
\* the previous one begins a new burst.
Changed(h) ==
    [h EXCEPT !.sinceChange = 0,
              !.burstChanges = IF hist.sinceChange >= DebounceMs THEN 1
                               ELSE Min(MaxBurst, @ + 1),
              !.burstWrites = IF hist.sinceChange >= DebounceMs THEN 0 ELSE @,
              !.edited = TRUE]

\* The step called showNotification.
Showed(h) == [h EXCEPT !.shows = TRUE, !.sinceShow = 0]

(***************************************************************************)
(* Editor: the handlers                                                    *)
(***************************************************************************)
TaskRoom == Len(tasks) < MaxTasks

\* Characters of TypedChars in the editor.
TypedCount(nodes) ==
    Cardinality({i \in 1..Len(InnerHTML(nodes)) : InnerHTML(nodes)[i].ch \in TypedChars})

\* handleContentChange as the closure of a render with isComposing =
\* composing, run on the tree `nodes` with the selection `selection`, the
\* pending callbacks being q and h the observation of the calling step.
\* if (editorRef.current && !isComposing): the cursor position is saved, the
\* snapshot is replaced (the [content] effect re-arms the save timer) and the
\* restore of the saved position is deferred.
handleContentChange(composing, nodes, selection, q, h) ==
    IF ~composing
    THEN /\ content' = Snapshot(nodes)
         /\ saveTimers' = ArmSave(saveTimers, Snapshot(nodes))
         /\ tasks' = ScheduleRestore(q, saveCursorPosition(selection))
         /\ hist' = Changed([h EXCEPT !.pass = TRUE])
    ELSE /\ tasks' = q
         /\ hist' = h
         /\ UNCHANGED <<content, saveTimers>>

\* The two mount effects: the stored draft, if any, is parsed into `content`
\* and assigned to innerHTML; the [content] effect arms the save timer for
\* the content of the last render.
Mount ==
    /\ ~mounted
    /\ mounted' = TRUE
    /\ IF stored.present
       THEN /\ content' = JSONParse(stored.text)
            /\ live' = ParseHTML(JSONParse(stored.text).htmlContent, <<>>)
            /\ saveTimers' = ArmSave(ArmSave(saveTimers, content), JSONParse(stored.text))
            /\ hist' = [Changed(Obs("mount")) EXCEPT !.edited = FALSE,
                                                     !.loaded = stored]
       ELSE /\ saveTimers' = ArmSave(saveTimers, content)
            /\ hist' = [Changed(Obs("mount")) EXCEPT !.edited = FALSE,
                                                     !.loaded = stored]
            /\ UNCHANGED <<content, live>>
    /\ UNCHANGED <<sel, isComposing, imeActive, showClearConfirm, notification,
                   notifTimers, tasks, reads, stored, now, nextImageId, fit, exp>>

\* The user puts the selection on the flat range p..q of the editor (a click,
\* a drag, arrow keys): no handler of the program runs.  Deferred callbacks
\* (0 ms) have run by the time the pointer is used.
SelectRange(p, q) ==
    /\ mounted /\ ~showClearConfirm /\ ~imeActive /\ tasks = <<>>
    /\ p <= q /\ q <= FlatLen(live)
    /\ sel' = RangeSel(CanonBP(live, p), CanonBP(live, q))
    /\ sel' # sel
    /\ hist' = Obs("select")
    /\ UNCHANGED <<live, content, isComposing, imeActive, showClearConfirm,
                   notification, notifTimers, tasks, reads, saveTimers, stored,
                   now, mounted, nextImageId, fit, exp>>

\* The user clicks outside the editor: the selection leaves it.
Blur ==
    /\ mounted /\ ~showClearConfirm /\ ~imeActive /\ tasks = <<>>
    /\ sel.kind = "in"
    /\ sel' = OutsideSelection
    /\ hist' = Obs("blur")
    /\ UNCHANGED <<live, content, isComposing, imeActive, showClearConfirm,
                   notification, notifTimers, tasks, reads, saveTimers, stored,
                   now, mounted, nextImageId, fit, exp>>

\* A key press (or, during a composition, a composition update) puts c at the
\* selection; the input event runs the current render's handleContentChange.
TypeChar(c) ==
    /\ mounted /\ ~showClearConfirm /\ TaskRoom
    /\ sel.kind = "in"
    /\ TypedCount(live) < MaxChars
    /\ LET del == BrowserDelete(live, sel.s, sel.e)
           ins == BrowserInsertChar(del.nodes, del.bp, c)
       IN  /\ live' = ins.nodes
           /\ sel' = Caret(ins.bp)
           /\ handleContentChange(isComposing, ins.nodes, Caret(ins.bp),
                  RemapTasks(tasks, ComposeMap(del.map, ins.map)),
                  Obs("input"))
    /\ UNCHANGED <<isComposing, imeActive, showClearConfirm, notification,
                   notifTimers, reads, stored, now, mounted, nextImageId, fit, exp>>

\* Backspace: the selection, or the item in front of the caret, is deleted;
\* the input event runs the current render's handleContentChange.
Backspace ==
    /\ mounted /\ ~showClearConfirm /\ TaskRoom
    /\ sel.kind = "in"
    /\ ~Collapsed(sel) \/ FlatPos(live, sel.s) > 0
    /\ LET r   == IF Collapsed(sel) THEN ItemRange(live, FlatPos(live, sel.s)) ELSE sel
           del == BrowserDelete(live, r.s, r.e)
       IN  /\ live' = del.nodes
           /\ sel' = Caret(del.bp)
           /\ handleContentChange(isComposing, del.nodes, Caret(del.bp),
                  RemapTasks(tasks, del.map),
                  Obs("input"))
    /\ UNCHANGED <<isComposing, imeActive, showClearConfirm, notification,
                   notifTimers, reads, stored, now, mounted, nextImageId, fit, exp>>

\* onCompositionStart: setIsComposing(true); the render is flushed before the
\* next event.
handleCompositionStart ==
    /\ mounted /\ ~showClearConfirm /\ ~imeActive
    /\ sel.kind = "in"
    /\ imeActive' = TRUE
    /\ isComposing' = TRUE
    /\ hist' = [Obs("compositionstart") EXCEPT !.ime = TRUE]
    /\ UNCHANGED <<live, sel, content, showClearConfirm, notification,
                   notifTimers, tasks, reads, saveTimers, stored, now, mounted,
                   nextImageId, fit, exp>>

\* onCompositionEnd: setIsComposing(false) and a deferred setContent.
handleCompositionEnd ==
    /\ mounted /\ imeActive /\ TaskRoom
    /\ imeActive' = FALSE
    /\ isComposing' = FALSE
    /\ tasks' = ScheduleFinalize(tasks)
    /\ hist' = [Obs("compositionend") EXCEPT !.ime = FALSE]
    /\ UNCHANGED <<live, sel, content, showClearConfirm, notification,
                   notifTimers, reads, saveTimers, stored, now, mounted,
                   nextImageId, fit, exp>>

\* The deferred callback of handleCompositionEnd: setContent with the live
\* innerHTML, whatever isComposing is by now; no cursor position is saved.
Finalize ==
    /\ tasks # <<>> /\ Head(tasks).type = "finalize"
    /\ tasks' = Tail(tasks)
    /\ content' = Snapshot(live)
    /\ saveTimers' = ArmSave(saveTimers, Snapshot(live))
    /\ hist' = Changed([Obs("finalize") EXCEPT !.pass = TRUE])
    /\ UNCHANGED <<live, sel, isComposing, imeActive, showClearConfirm,
                   notification, notifTimers, reads, stored, now, mounted,
                   nextImageId, fit, exp>>

\* The deferred callback of handleContentChange: restoreCursorPosition.
Restore ==
    /\ tasks # <<>> /\ Head(tasks).type = "restore"
    /\ tasks' = Tail(tasks)
    /\ sel' = restoreCursorPosition(Head(tasks).pos, live, sel)
    /\ hist' = [Obs("restore") EXCEPT
                  !.anchor = Head(tasks).pos.valid,
                  !.superseded = Head(tasks).superseded,
                  !.gone = ~Attached(Head(tasks).pos.s) \/ ~Attached(Head(tasks).pos.e),
                  !.stale = RestoreThrows(Head(tasks).pos, live)]
    /\ UNCHANGED <<live, content, isComposing, imeActive, showClearConfirm,
                   notification, notifTimers, reads, saveTimers, stored, now,
                   mounted, nextImageId, fit, exp>>

\* DataTransferItems of a paste: their type and whether getAsFile() returns a
\* file.
ItemKinds ==
    {[type |-> "image/png", file |-> TRUE], [type |-> "image/png", file |-> FALSE],
     [type |-> "text/plain", file |-> FALSE]}

PasteItemLists == SeqsUpTo(ItemKinds, MaxItems) \ {<<>>}

\* item.type.startsWith("image/")
IsImageType(type) == type = "image/png"

\* Pastes of images only.
ImagePasteLists ==
    {items \in PasteItemLists : \A i \in 1..Len(items) : IsImageType(items[i].type)}

\* One FileReader per image item, its onload closing over the handlers of the
\* render in which the paste happened.
StartedReads(items) ==
    Concat([i \in 1..Len(items) |->
               IF IsImageType(items[i].type) /\ items[i].file
               THEN <<[closure |-> Closure(isComposing)]>>
               ELSE <<>>])

\* onPaste.  With an image item the default action is prevented and a read is
\* started per image; without one the browser pastes the text itself and the
\* input event runs handleContentChange.
handlePaste(items) ==
    /\ mounted /\ ~showClearConfirm
    /\ sel.kind = "in"
    /\ IF \E i \in 1..Len(items) : IsImageType(items[i].type)
       THEN /\ (nextImageId - 1) + Len(reads) + Len(StartedReads(items)) <= MaxImages
            /\ reads' = reads \o StartedReads(items)
            /\ hist' = [Obs(IF \A i \in 1..Len(items) : IsImageType(items[i].type)
                            THEN "paste" ELSE "pasteMixed")
                           EXCEPT !.pre = InnerHTML(live),
                                  !.ps = FlatPos(live, sel.s),
                                  !.pe = FlatPos(live, sel.e)]
            /\ UNCHANGED <<live, sel, content, tasks, saveTimers>>
       ELSE /\ TaskRoom
            /\ TypedCount(live) < MaxChars
            /\ LET c   == CHOOSE x \in TypedChars : TRUE
                   del == BrowserDelete(live, sel.s, sel.e)
                   ins == BrowserInsertChar(del.nodes, del.bp, c)
               IN  /\ live' = ins.nodes
                   /\ sel' = Caret(ins.bp)
                   /\ handleContentChange(isComposing, ins.nodes, Caret(ins.bp),
                          RemapTasks(tasks, ComposeMap(del.map, ins.map)),
                          [Obs("pasteText") EXCEPT !.pre = InnerHTML(live),
                                                   !.ps = FlatPos(live, sel.s),
                                                   !.pe = FlatPos(live, sel.e)])
            /\ UNCHANGED reads
    /\ UNCHANGED <<isComposing, imeActive, showClearConfirm, notification,
                   notifTimers, stored, now, mounted, nextImageId, fit, exp>>

\* reader.onload of read i.  With no range, or a range outside the editor,
\* nothing is inserted.  Otherwise the widget and its two sentinels replace
\* the selection, the paste render's handleContentChange runs and the
\* notification is shown.
ReadDone(i) ==
    /\ i \in 1..Len(reads) /\ TaskRoom
    /\ reads' = RemoveAt(reads, i)
    /\ nextImageId' = nextImageId + 1
    /\ IF sel.kind = "in"
       THEN LET r == PasteInsert(live, sel, nextImageId, reads[i].closure)
            IN  /\ live' = r.nodes
                /\ sel' = r.sel
                /\ handleContentChange(reads[i].closure = Closure(TRUE), r.nodes,
                       r.sel, RemapTasks(tasks, r.map),
                       [Showed(Obs("readDone")) EXCEPT !.pre = InnerHTML(live),
                                               !.ps = FlatPos(live, sel.s),
                                               !.pe = FlatPos(live, sel.e),
                                               !.wid = nextImageId])
                /\ notification' = ShownNotification("image added", "success")
                /\ notifTimers' = AddDismissTimer(notifTimers)
       ELSE /\ hist' = Obs("readSkipped")
            /\ UNCHANGED <<live, sel, content, tasks, saveTimers, notification,
                           notifTimers>>
    /\ UNCHANGED <<isComposing, imeActive, showClearConfirm, stored, now,
                   mounted, fit, exp>>

\* A click on the delete button of the widget at child i.  With the onclick
\* set when the widget was pasted: imgWrapper.remove(); handleContentChange()
\* of the paste render.  A widget parsed from stored HTML has the button
\* without a handler (innerHTML serializes no onclick property): the click
\* runs nothing.
DeleteClick(i) ==
    /\ mounted /\ ~showClearConfirm /\ TaskRoom
    /\ i \in 1..Len(live)
    /\ live[i].k = "w"
    /\ LET left == RemoveAt(live, i)
           map  == [j \in 1..Len(live) |->
                       IF j = i THEN Gone(0) ELSE IF j > i THEN Kept(j - 1) ELSE Kept(j)]
           h    == [Obs("deleteClick") EXCEPT !.pre = InnerHTML(live),
                                              !.ps = FlatStart(live, i),
                                              !.wid = live[i].id]
       IN  IF live[i].onclick # "none"
           THEN /\ live' = left
                /\ sel' = AfterRemoval(sel, i)
                /\ handleContentChange(live[i].onclick = Closure(TRUE), left,
                       AfterRemoval(sel, i), RemapTasks(tasks, map), h)
           ELSE /\ hist' = h
                /\ UNCHANGED <<live, sel, content, tasks, saveTimers>>
    /\ UNCHANGED <<isComposing, imeActive, showClearConfirm, notification,
                   notifTimers, reads, stored, now, mounted, nextImageId, fit, exp>>

\* The clear button (disabled while content.htmlContent is empty).
OpenClearConfirm ==
    /\ mounted /\ ~showClearConfirm /\ ~imeActive
    /\ content.htmlContent # <<>>
    /\ showClearConfirm' = TRUE
    /\ hist' = Obs("openClearConfirm")
    /\ UNCHANGED <<live, sel, content, isComposing, imeActive, notification,
                   notifTimers, tasks, reads, saveTimers, stored, now, mounted,
                   nextImageId, fit, exp>>

CancelClear ==
    /\ showClearConfirm
    /\ showClearConfirm' = FALSE
    /\ hist' = Obs("cancelClear")
    /\ UNCHANGED <<live, sel, content, isComposing, imeActive, notification,
                   notifTimers, tasks, reads, saveTimers, stored, now, mounted,
                   nextImageId, fit, exp>>

\* handleClear: the snapshot and the tree are emptied, the dialog is closed
\* and the notification is shown.  Saved cursor positions of pending
\* callbacks now name nodes that are out of the tree.
handleClear ==
    /\ showClearConfirm
    /\ content' = [htmlContent |-> <<>>, timestamp |-> now]
    /\ saveTimers' = ArmSave(saveTimers, content')
    /\ live' = <<>>
    /\ sel' = AfterEmptying(sel)
    /\ tasks' = RemapTasks(tasks, [j \in 1..Len(live) |-> Gone(Len(live[j].d))])
    /\ showClearConfirm' = FALSE
    /\ notification' = ShownNotification("document cleared", "success")
    /\ notifTimers' = AddDismissTimer(notifTimers)
    /\ hist' = Showed(Changed(Obs("clear")))
    /\ UNCHANGED <<isComposing, imeActive, reads, stored, now, mounted,
                   nextImageId, fit, exp>>

\* What the browser offers to a copy: navigator.clipboard, window.ClipboardItem,
\* and whether clipboard.write, clipboard.writeText and
\* document.execCommand("copy") succeed when they are called.
CopyEnvs ==
    [clipboard : BOOLEAN, clipboardItem : BOOLEAN, writeOk : BOOLEAN,
     writeTextOk : BOOLEAN, execOk : BOOLEAN]

\* The try block of handleCopyAll: the mechanisms it calls, whether the draft
\* reached the clipboard, and whether it threw.  Without navigator.clipboard
\* the call of writeText on undefined throws before anything is written.
CopyTry(env) ==
    IF env.clipboard /\ env.clipboardItem
    THEN [tried |-> <<"write">>, copied |-> env.writeOk, threw |-> ~env.writeOk]
    ELSE IF env.clipboard
         THEN [tried |-> <<"writeText">>, copied |-> env.writeTextOk,
               threw |-> ~env.writeTextOk]
         ELSE [tried |-> <<>>, copied |-> FALSE, threw |-> TRUE]

\* The copy button (disabled while content.htmlContent is empty).  The try
\* block shows a success notification when it does not throw.  The catch
\* block, with the editor mounted, selects the editor's contents, calls
\* execCommand("copy") without reading its result, removes all ranges and
\* shows the success notification; with no editor it shows the error.
handleCopyAll(env) ==
    /\ mounted /\ ~showClearConfirm /\ ~imeActive /\ tasks = <<>>
    /\ content.htmlContent # <<>>
    /\ LET try == CopyTry(env)
       IN  IF ~try.threw
           THEN /\ notification' = ShownNotification(
                       IF env.clipboardItem THEN "copied with images" ELSE "copied",
                       "success")
                /\ hist' = [Showed(Obs("copy")) EXCEPT !.tried = try.tried,
                                                       !.copied = try.copied]
                /\ sel' = sel
           ELSE IF mounted
           THEN /\ notification' = ShownNotification("copied", "success")
                /\ hist' = [Showed(Obs("copy")) EXCEPT
                              !.tried = try.tried \o <<"execCommand">>,
                              !.copied = env.execOk]
                /\ sel' = NoSelection
           ELSE /\ notification' = ShownNotification("copy failed", "error")
                /\ hist' = [Showed(Obs("copy")) EXCEPT !.tried = try.tried]
                /\ sel' = sel
    /\ notifTimers' = AddDismissTimer(notifTimers)
    /\ UNCHANGED <<live, content, isComposing, imeActive, showClearConfirm,
                   tasks, reads, saveTimers, stored, now, mounted, nextImageId,
                   fit, exp>>

\* The page is closed and opened again: the component starts from its
\* useState initializers with an empty editor, every timer, read and deferred
\* callback of the old page is gone, and localStorage is what it was.
Reload ==
    /\ mounted
    /\ mounted' = FALSE
    /\ live' = <<>>
    /\ sel' = NoSelection
    /\ content' = [InitialContent EXCEPT !.timestamp = now]
    /\ isComposing' = FALSE
    /\ imeActive' = FALSE
    /\ showClearConfirm' = FALSE
    /\ notification' = NoNotification
    /\ notifTimers' = {}
    /\ tasks' = <<>>
    /\ reads' = <<>>
    /\ saveTimers' = <<>>
    /\ hist' = [InitHist EXCEPT !.op = "reload"]
    /\ UNCHANGED <<stored, now, nextImageId, fit, exp>>

(***************************************************************************)
(* Editor: time                                                            *)
(***************************************************************************)
\* TickMs pass.  Callbacks that are due run before more time passes.
Tick ==
    /\ mounted /\ now < MaxNow
    /\ tasks = <<>>
    /\ \A i \in 1..Len(saveTimers) : saveTimers[i].rem > 0
    /\ 0 \notin notifTimers
    /\ now' = now + TickMs
    /\ saveTimers' = [i \in 1..Len(saveTimers) |->
                         [saveTimers[i] EXCEPT !.rem = Max(0, @ - TickMs)]]
    /\ notifTimers' = {Max(0, t - TickMs) : t \in notifTimers}
    /\ hist' = [Obs("tick") EXCEPT
                  !.sinceChange = Min(DebounceMs, @ + TickMs),
                  !.sinceShow = IF hist.shows THEN Min(NotificationMs, @ + TickMs) ELSE @]
    /\ UNCHANGED <<live, sel, content, isComposing, imeActive, showClearConfirm,
                   notification, tasks, reads, stored, mounted, nextImageId,
                   fit, exp>>

\* The auto-save timer's callback:
\* localStorage.setItem(STORAGE_KEY, JSON.stringify(content)) with the content
\* of the render that armed it.
SaveFire(i) ==
    /\ i \in 1..Len(saveTimers)
    /\ saveTimers[i].rem = 0
    /\ stored' = Stored(JSONStringify(saveTimers[i].value))
    /\ saveTimers' = RemoveAt(saveTimers, i)
    /\ hist' = [Obs("saveFire") EXCEPT !.burstWrites = @ + 1]
    /\ UNCHANGED <<live, sel, content, isComposing, imeActive, showClearConfirm,
                   notification, notifTimers, tasks, reads, now, mounted,
                   nextImageId, fit, exp>>

\* A dismiss timer of showNotification: visible becomes false, whichever
\* notification is on display.
NotifFire ==
    /\ 0 \in notifTimers
    /\ notifTimers' = notifTimers \ {0}
    /\ notification' = [notification EXCEPT !.visible = FALSE]
    /\ hist' = Obs("notifFire")
    /\ UNCHANGED <<live, sel, content, isComposing, imeActive, showClearConfirm,
                   tasks, reads, saveTimers, stored, now, mounted, nextImageId,
                   fit, exp>>

(***************************************************************************)
(* Editor: specifications                                                  *)
(***************************************************************************)
FitIdle == [w |-> 0, h |-> 0, done |-> FALSE, width |-> 0, height |-> 0]

ExpIdle == [html |-> <<>>, done |-> FALSE, traversed |-> <<>>,
            children |-> <<>>, saved |-> FALSE]

\* The page before its mount effects, with no draft in localStorage.
EditorIdle ==
    /\ live = <<>>
    /\ sel = NoSelection
    /\ content = InitialContent
    /\ isComposing = FALSE
    /\ imeActive = FALSE
    /\ showClearConfirm = FALSE
    /\ notification = NoNotification
    /\ notifTimers = {}
    /\ tasks = <<>>
    /\ reads = <<>>
    /\ saveTimers = <<>>
    /\ stored = Absent
    /\ now = 0
    /\ mounted = FALSE
    /\ nextImageId = 1
    /\ hist = InitHist

Init == EditorIdle /\ fit = FitIdle /\ exp = ExpIdle

\* Text editing: keys, compositions, the clear dialog and the deferred
\* callbacks, without the passage of time.
Next ==
    \/ Mount
    \/ \E p, q \in 0..FlatLen(live) : SelectRange(p, q)
    \/ Blur
    \/ \E c \in TypedChars : TypeChar(c)
    \/ Backspace
    \/ handleCompositionStart
    \/ handleCompositionEnd
    \/ Finalize
    \/ Restore
    \/ OpenClearConfirm
    \/ CancelClear
    \/ handleClear

Spec == Init /\ [][Next]_vars

\* Image widgets: pastes, reads in flight and delete clicks among keys and
\* compositions.
NextImage ==
    \/ Mount
    \/ \E p, q \in 0..FlatLen(live) : SelectRange(p, q)
    \/ Blur
    \/ \E c \in TypedChars : TypeChar(c)
    \/ handleCompositionStart
    \/ handleCompositionEnd
    \/ Finalize
    \/ Restore
    \/ \E items \in PasteItemLists : handlePaste(items)
    \/ \E i \in 1..Len(reads) : ReadDone(i)
    \/ \E i \in 1..Len(live) : DeleteClick(i)

SpecImage == Init /\ [][NextImage]_vars

\* Typing with the clock: the debounced save of the [content] effect.
NextTimed ==
    \/ Mount
    \/ \E p \in 0..FlatLen(live) : SelectRange(p, p)
    \/ \E c \in TypedChars : TypeChar(c)
    \/ Backspace
    \/ Restore
    \/ Tick
    \/ \E i \in 1..Len(saveTimers) : SaveFire(i)

SpecTimed == Init /\ [][NextTimed]_vars

\* Typing with the clock where the mount effects run, deferred callbacks run,
\* time passes and due timers fire.  The clock stops at MaxNow: the last
\* change comes early enough for its timer to fire.
RoomForDebounce == now + DebounceMs <= MaxNow

NextTimedFair ==
    \/ Mount
    \/ \E p \in 0..FlatLen(live) : SelectRange(p, p)
    \/ RoomForDebounce /\ \E c \in TypedChars : TypeChar(c)
    \/ RoomForDebounce /\ Backspace
    \/ Restore
    \/ Tick
    \/ \E i \in 1..Len(saveTimers) : SaveFire(i)

SpecTimedFair ==
    /\ Init
    /\ [][NextTimedFair]_vars
    /\ WF_vars(Mount)
    /\ WF_vars(Restore)
    /\ WF_vars(Tick)
    /\ WF_vars(\E i \in 1..Len(saveTimers) : SaveFire(i))

\* The life of a draft: image pastes and delete clicks with the clock, the
\* debounced save, and the page closed and opened again.
NextReload ==
    \/ Mount
    \/ \E p \in 0..FlatLen(live) : SelectRange(p, p)
    \/ \E items \in ImagePasteLists : handlePaste(items)
    \/ \E i \in 1..Len(reads) : ReadDone(i)
    \/ \E i \in 1..Len(live) : DeleteClick(i)
    \/ Restore
    \/ Tick
    \/ \E i \in 1..Len(saveTimers) : SaveFire(i)
    \/ Reload

SpecReload == Init /\ [][NextReload]_vars

\* Copies and their notifications with the clock.
NextNotify ==
    \/ Mount
    \/ \E p \in 0..FlatLen(live) : SelectRange(p, p)
    \/ \E c \in TypedChars : TypeChar(c)
    \/ Restore
    \/ \E env \in CopyEnvs : handleCopyAll(env)
    \/ Tick
    \/ \E i \in 1..Len(saveTimers) : SaveFire(i)
    \/ NotifFire

SpecNotify == Init /\ [][NextNotify]_vars

(***************************************************************************)
(* The sizing step on its own                                              *)
(***************************************************************************)
\* Intrinsic sizes: small ones, the sizes on both sides of the bound, the
\* spec's examples, sizes whose scaled value falls on a half, extreme ratios.
FitWidths == {1, 2, 11, 200, 300, 599, 600, 601, 800, 1200, 1201, 1300}

FitHeights == {1, 2, 200, 300, 449, 450, 451, 660, 900, 1000}

InitFit ==
    /\ EditorIdle
    /\ exp = ExpIdle
    /\ fit \in {[w |-> w, h |-> h, done |-> FALSE, width |-> 0, height |-> 0] :
                   w \in FitWidths, h \in FitHeights}

\* The sizing statements of an image branch, for originalWidth = fit.w and
\* originalHeight = fit.h.
FitStep ==
    /\ ~fit.done
    /\ \E tieDown \in BOOLEAN :
          LET size == ExportSize(fit.w, fit.h, tieDown)
          IN  fit' = [fit EXCEPT !.done = TRUE, !.width = size.width,
                                 !.height = size.height]
    /\ UNCHANGED <<editorVars, exp>>

NextFit == FitStep

SpecFit == InitFit /\ [][NextFit]_vars

(***************************************************************************)
(* The export on its own                                                   *)
(***************************************************************************)
\* Characters of exported text nodes.
MaxTextLen == 4

\* Top-level nodes of an exported snapshot with elements.
MaxTop == 2

ExportTexts == SeqsUpTo({"a", " ", "\n"}, MaxTextLen)

\* The span handlePaste builds: the img and the delete button ("x").
WidgetSpan(img) ==
    ElemNode("SPAN", "inline-image",
             <<img, ElemNode("BUTTON", "inline-image-delete", <<TextNode(<<"x">>)>>)>>)

ExportNodes ==
    {TextNode(<<"a">>),
     TextNode(<<ZWSP>>),
     ElemNode("BR", "", <<>>),
     ImgNode("ok", 800, 900, 0, 0),
     ImgNode("malformed", 200, 200, 0, 0),
     ImgNode("remote", 200, 200, 0, 0),
     WidgetSpan(ImgNode("ok", 0, 0, 0, 0)),
     ElemNode("DIV", "", <<TextNode(<<"a">>), WidgetSpan(ImgNode("ok", 1200, 300, 0, 0))>>),
     ElemNode("B", "", <<TextNode(<<" ">>)>>),
     ElemNode("B", "", <<WidgetSpan(ImgNode("ok", 200, 200, 0, 0))>>)}

\* tempDiv.childNodes after tempDiv.innerHTML = content.htmlContent: the
\* empty snapshot, one text node, or a few nodes of ExportNodes.
ExportSnapshots ==
    {<<TextNode(t)>> : t \in ExportTexts \ {<<>>}} \cup SeqsUpTo(ExportNodes, MaxTop)

InitExport ==
    /\ EditorIdle
    /\ fit = FitIdle
    /\ exp \in {[ExpIdle EXCEPT !.html = h] : h \in ExportSnapshots}

\* handleExportWord on the snapshot exp.html: the traversal, the fallback
\* paragraph, then Packer.toBlob and saveAs; a throw of these is caught and
\* reported.  Either way a notification is shown.
handleExportWord ==
    /\ ~exp.done
    /\ \E tieDown \in BOOLEAN, packOk \in BOOLEAN :
          /\ exp' = [exp EXCEPT !.done = TRUE,
                                !.traversed = Traverse(exp.html, tieDown),
                                !.children = WithEmptyFallback(Traverse(exp.html, tieDown)),
                                !.saved = packOk]
          /\ notification' = IF packOk
                             THEN ShownNotification("export succeeded", "success")
                             ELSE ShownNotification("export failed", "error")
    /\ notifTimers' = AddDismissTimer(notifTimers)
    /\ hist' = Obs("export")
    /\ UNCHANGED <<live, sel, content, isComposing, imeActive, showClearConfirm,
                   tasks, reads, saveTimers, stored, now, mounted, nextImageId,
                   fit>>

NextExport == handleExportWord

SpecExport == InitExport /\ [][NextExport]_vars

(***************************************************************************)
(* Claims about the editor                                                 *)
(***************************************************************************)
\* C1 (as claimed): after the handler of every input event the snapshot's
\* content equals the serialized content of the live tree.
C1_SnapshotEqualsLiveAfterEveryEdit ==
    hist.op = "input" => content.htmlContent = InnerHTML(live)

\* C1 (amended): after the handler of every input event that arrives while no
\* composition is in progress, the snapshot's content equals the serialized
\* content of the live tree.
C1_SnapshotEqualsLiveOutsideComposition ==
    (hist.op = "input" /\ ~hist.ime) => content.htmlContent = InnerHTML(live)

\* An edit outside a composition has brought the content to two characters.
C1_Witness ==
    /\ hist.op = "input" /\ ~hist.ime /\ hist.pass
    /\ Len(InnerHTML(live)) = 2

\* C2: within one burst of snapshot changes localStorage.setItem is called at
\* most once, no sooner than the debounce window after the burst's last
\* change, and it writes the snapshot of that last change.
C2_OneWritePerBurstOfFinalSnapshot ==
    /\ hist.burstWrites <= 1
    /\ hist.op = "saveFire" =>
          /\ stored = Stored(JSONStringify(content))
          /\ hist.sinceChange >= DebounceMs

\* A burst of two or more changes has been written.
C2_Witness ==
    /\ hist.op = "saveFire" /\ hist.burstChanges >= 2 /\ hist.burstWrites = 1
    /\ content.htmlContent # <<>>

\* C3: the mutation pass never runs while a composition is in progress.
C3_NoPassDuringComposition == ~(hist.pass /\ hist.ime)

\* C4: a restoration that runs is never that of a capture which a later
\* capture had superseded while it was pending.
C4_SupersededRestoreNeverRuns ==
    (hist.op = "restore" /\ hist.anchor) => ~hist.superseded

\* C5: restoring an anchor whose node has left the tree, or whose offset is
\* stale, leaves a collapsed caret at the end of the editable content.
C5_DeadAnchorRestoresToEnd ==
    (hist.op = "restore" /\ hist.anchor /\ (hist.gone \/ hist.stale)) =>
        /\ sel.kind = "in"
        /\ Collapsed(sel)
        /\ FlatPos(live, sel.s) = FlatLen(live)

\* C6: an image insertion leaves (content before the selection) + widget +
\* zero-width placeholder + space + (content after the selection), with the
\* caret right after the space.
C6_InsertionReplacesOnlySelection ==
    hist.op = "readDone" =>
        /\ InnerHTML(live) =
              SubSeq(hist.pre, 1, hist.ps)
                 \o <<WidgetTok(hist.wid), CharTok(ZWSP), CharTok(" ")>>
                 \o SubSeq(hist.pre, hist.pe + 1, Len(hist.pre))
        /\ sel.kind = "in"
        /\ Collapsed(sel)
        /\ FlatPos(live, sel.s) = hist.ps + 3

\* An image has replaced a non-empty selection that had content in front.
C6_Witness ==
    /\ hist.op = "readDone"
    /\ 0 < hist.ps /\ hist.ps < hist.pe

\* C7: a delete click removes exactly the widget's token from the live
\* content, and the snapshot no longer contains the widget.
C7_DeleteRemovesWidgetAndRefreshesSnapshot ==
    hist.op = "deleteClick" =>
        /\ InnerHTML(live) =
              SubSeq(hist.pre, 1, hist.ps)
                 \o SubSeq(hist.pre, hist.ps + 2, Len(hist.pre))
        /\ hist.pre[hist.ps + 1] = WidgetTok(hist.wid)
        /\ \A i \in 1..Len(content.htmlContent) :
              content.htmlContent[i] # WidgetTok(hist.wid)

(***************************************************************************)
(* Claims about the export                                                 *)
(***************************************************************************)
\* C8: an intrinsic size within 600 x 450 is exported as it is; a larger one
\* is exported as the two sides times r = min(600/w, 450/h), each rounded to
\* a nearest integer; the exported size never exceeds 600 x 450; (1200, 300)
\* gives (600, 150) and (800, 900) gives (400, 450).
C8_AspectFit ==
    fit.done =>
        LET byWidth == MaxExportWidth * fit.h <= MaxExportHeight * fit.w
            num     == IF byWidth THEN MaxExportWidth ELSE MaxExportHeight
            den     == IF byWidth THEN fit.w ELSE fit.h
            Near(x, d) == /\ 2 * den * x - 2 * d * num <= den
                          /\ 2 * d * num - 2 * den * x <= den
        IN  /\ (fit.w <= MaxExportWidth /\ fit.h <= MaxExportHeight) =>
                  (fit.width = fit.w /\ fit.height = fit.h)
            /\ (fit.w > MaxExportWidth \/ fit.h > MaxExportHeight) =>
                  (Near(fit.width, fit.w) /\ Near(fit.height, fit.h))
            /\ fit.width <= MaxExportWidth
            /\ fit.height <= MaxExportHeight
            /\ (fit.w = 1200 /\ fit.h = 300) => (fit.width = 600 /\ fit.height = 150)
            /\ (fit.w = 800 /\ fit.h = 900) => (fit.width = 400 /\ fit.height = 450)

\* An image too high and too wide has been scaled by its height.
C8_Witness ==
    /\ fit.done /\ fit.w = 800 /\ fit.h = 900
    /\ fit.width = 400 /\ fit.height = 450

\* C9: the export of a snapshot that is one text node is one paragraph per
\* line of the text that is not all white space, each holding one run with
\* the line trimmed at both ends.
C9_TextNodeLinesTrimmed ==
    (exp.done /\ Len(exp.html) = 1 /\ exp.html[1].tag = "#text") =>
        LET lines == SplitLines(exp.html[1].text)
        IN  exp.traversed =
               Concat([i \in 1..Len(lines) |->
                          IF Trim(lines[i]) # <<>>
                          THEN <<TextParagraph(Trim(lines[i]))>>
                          ELSE <<>>])

\* C10: an exported document holds at least one paragraph, and when the
\* traversal yields none it holds exactly one paragraph with the run " ".
C10_NeverStructurallyEmpty ==
    exp.done =>
        /\ Len(exp.children) >= 1
        /\ exp.traversed = <<>> => exp.children = <<TextParagraph(<<" ">>)>>
        /\ exp.traversed # <<>> => exp.children = exp.traversed

\* A snapshot that is not empty, none of whose nodes produces a paragraph,
\* has been exported.
C10_Witness ==
    /\ exp.done /\ exp.html # <<>> /\ exp.traversed = <<>>
    /\ exp.children = <<TextParagraph(<<" ">>)>>

\* An inline image widget or a raw embedded image whose payload decodes.
C11_IsImage(node) ==
    \/ node.tag = "IMG" /\ node.src = "ok"
    \/ /\ node.tag = "SPAN" /\ node.cls = "inline-image"
       /\ \E i \in 1..Len(node.kids) : node.kids[i].tag = "IMG" /\ node.kids[i].src = "ok"

\* The images of a tree, wherever they are nested.
RECURSIVE C11_ImagesAnywhere(_)
C11_ImagesAnywhere(node) ==
    IF C11_IsImage(node) THEN 1
    ELSE IF node.tag \in {"#text", "IMG"} \/ node.cls = "inline-image" THEN 0
    ELSE LET n[i \in 0..Len(node.kids)] ==
                 IF i = 0 THEN 0 ELSE n[i - 1] + C11_ImagesAnywhere(node.kids[i])
         IN  n[Len(node.kids)]

\* The nodes of a tree with its block containers (DIV, P) flattened, in
\* depth-first document order.
RECURSIVE C11_BlockLeaves(_)
C11_BlockLeaves(node) ==
    IF node.tag \in {"DIV", "P"}
    THEN Concat([i \in 1..Len(node.kids) |-> C11_BlockLeaves(node.kids[i])])
    ELSE <<node>>

C11_ImageParagraphCount(paragraphs) ==
    Cardinality({i \in 1..Len(paragraphs) : paragraphs[i].kind = "image"})

\* C11 (as claimed): the export holds one image paragraph per decodable
\* widget or raw image of the snapshot, wherever it is nested.
C11_OneParagraphPerImageAnywhere ==
    exp.done =>
        C11_ImageParagraphCount(exp.traversed) =
            LET n[i \in 0..Len(exp.html)] ==
                    IF i = 0 THEN 0 ELSE n[i - 1] + C11_ImagesAnywhere(exp.html[i])
            IN  n[Len(exp.html)]

\* C11 (amended): with the block containers flattened, the export is the
\* concatenation, in depth-first document order, of what each remaining node
\* yields, and a node among them that is a decodable widget or raw image
\* yields exactly one paragraph, an image paragraph.
C11_OneParagraphPerImageUnderBlocks ==
    exp.done =>
        LET leaves == Concat([i \in 1..Len(exp.html) |-> C11_BlockLeaves(exp.html[i])])
        IN  \E t \in BOOLEAN :
               /\ exp.traversed =
                     Concat([i \in 1..Len(leaves) |-> processNode(leaves[i], t)])
               /\ \A i \in 1..Len(leaves) :
                     /\ ~(leaves[i].tag \in {"DIV", "P"})
                     /\ C11_IsImage(leaves[i]) =>
                           /\ Len(processNode(leaves[i], t)) = 1
                           /\ processNode(leaves[i], t)[1].kind = "image"
               /\ C11_ImageParagraphCount(exp.traversed) =
                     Cardinality({i \in 1..Len(leaves) : C11_IsImage(leaves[i])})

\* A widget inside a block container has been exported behind the
\* container's text.
C11_Witness ==
    /\ exp.done /\ Len(exp.html) = 1 /\ exp.html[1].tag = "DIV"
    /\ Len(exp.traversed) = 2
    /\ exp.traversed[1].kind = "text" /\ exp.traversed[2].kind = "image"

\* A tree without its images whose payload does not decode.
RECURSIVE C12_WithoutMalformed(_)
C12_WithoutMalformed(nodes) ==
    Concat([i \in 1..Len(nodes) |->
               IF nodes[i].tag = "IMG" /\ nodes[i].src = "malformed" THEN <<>>
               ELSE <<[nodes[i] EXCEPT !.kids = C12_WithoutMalformed(@)]>>])

\* C12: the export of a snapshot is the export of the snapshot without its
\* undecodable images, and no error is reported unless the serialization
\* itself failed.
C12_DecodeFailureSkipped ==
    exp.done =>
        /\ \E t \in BOOLEAN :
              /\ exp.traversed = Traverse(C12_WithoutMalformed(exp.html), t)
              /\ exp.children =
                    WithEmptyFallback(Traverse(C12_WithoutMalformed(exp.html), t))
        /\ exp.saved => notification.type = "success"

\* An undecodable image next to an exported node has been skipped.
C12_Witness ==
    /\ exp.done /\ exp.saved /\ Len(exp.html) = 2
    /\ exp.html[1].tag = "IMG" /\ exp.html[1].src = "malformed"
    /\ Len(exp.traversed) = 1
    /\ notification.type = "success"

(***************************************************************************)
(* Claims about compositions, reloads, copies and notifications            *)
(***************************************************************************)
\* Deferred finalizations among the pending callbacks.
C13_Pending(q) == Cardinality({i \in 1..Len(q) : q[i].type = "finalize"})

\* C13: a compositionend leaves the snapshot as it is and queues exactly one
\* deferred finalization; a finalization leaves the queue only by running,
\* one at a time, and its run replaces the snapshot by the live content.
C13_OneDeferredPassPerCompositionEnd ==
    [][/\ hist'.op = "compositionend" =>
             /\ content' = content
             /\ C13_Pending(tasks') = C13_Pending(tasks) + 1
       /\ C13_Pending(tasks') > C13_Pending(tasks) => hist'.op = "compositionend"
       /\ C13_Pending(tasks') < C13_Pending(tasks) =>
             /\ C13_Pending(tasks') = C13_Pending(tasks) - 1
             /\ hist'.op = "finalize" /\ hist'.pass
             /\ content'.htmlContent = InnerHTML(live')]_vars

\* The deferred pass of a composition that put text in the editor has run.
C13_Witness ==
    /\ hist.op = "finalize" /\ hist.pass
    /\ content.htmlContent # <<>>
    /\ content.htmlContent = InnerHTML(live)

\* C14: a click on the delete button of a widget takes the widget out of the
\* editor, whether the widget was pasted on this page or came back from the
\* stored draft.
C14_DeleteClickDestroysWidget ==
    hist.op = "deleteClick" =>
        \A i \in 1..Len(live) : live[i].k = "w" => live[i].id # hist.wid

\* C15: a copy tries the rich write, then the plain-text write, then the
\* copy command, stopping at the first that succeeds; it shows the success
\* notification only if one of them put the draft on the clipboard and the
\* error notification when all three have failed.
C15_CopyDegradesInOrderAndReportsFailure ==
    hist.op = "copy" =>
        /\ \E n \in 1..3 : hist.tried = SubSeq(<<"write", "writeText", "execCommand">>, 1, n)
        /\ ~hist.copied => hist.tried = <<"write", "writeText", "execCommand">>
        /\ notification.visible
        /\ notification.type = IF hist.copied THEN "success" ELSE "error"

\* C16: once showNotification has been called, the notification of its
\* latest call is on display while less than NotificationMs have passed since
\* that call, and nothing is on display once NotificationMs have passed and
\* the timers that were due have run.
C16_LatestNotificationLastsThreeSeconds ==
    hist.shows =>
        /\ hist.sinceShow < NotificationMs => notification.visible
        /\ (hist.sinceShow >= NotificationMs /\ 0 \notin notifTimers) =>
               ~notification.visible

(***************************************************************************)
(* Claims about pastes of several items, persistence and loading           *)
(***************************************************************************)
\* C17: a paste with a text item puts the text in place of the selection,
\* whether or not the same paste has image items.
C17_TextItemsReachDefaultPaste ==
    hist.op \in {"pasteText", "pasteMixed"} =>
        \E c \in TypedChars :
            InnerHTML(live) = SubSeq(hist.pre, 1, hist.ps) \o <<CharTok(c)>>
                                 \o SubSeq(hist.pre, hist.pe + 1, Len(hist.pre))

\* C18: every write of the save timer stores the snapshot that is current
\* when it fires, and once the snapshot stops changing the stored value
\* becomes, and stays, the JSON text of the current snapshot.
C18_EventuallyPersisted ==
    /\ [](hist.op = "saveFire" => stored = Stored(JSONStringify(content)))
    /\ <>[][content' = content]_content
          => <>[](stored = Stored(JSONStringify(content)))

\* A snapshot taken after time had passed has been written, once.
C18_Witness ==
    /\ hist.op = "saveFire" /\ hist.edited /\ hist.burstWrites = 1
    /\ content.htmlContent # <<>> /\ content.timestamp > 0
    /\ stored = Stored(JSONStringify(content))

\* C19: when no composition is in progress, no image read is in flight and
\* no deferred callback is pending, the snapshot is the serialized content of
\* the live editor.
C19_QuiescentSnapshotEqualsLive ==
    (mounted /\ ~imeActive /\ reads = <<>> /\ tasks = <<>>) =>
        content.htmlContent = InnerHTML(live)

\* C20: when a draft is stored at start-up, the mount effects make the
\* snapshot and the live editor equal to it and leave it in storage, and
\* until the user's first edit storage holds the loaded draft: neither the
\* initial empty snapshot nor anything else replaces it.
C20_LoadKeepsStoredDraft ==
    (mounted /\ hist.loaded.present) =>
        /\ hist.op = "mount" =>
              /\ JSONStringify(content) = hist.loaded.text
              /\ InnerHTML(live) = JSONParse(hist.loaded.text).htmlContent
        /\ ~hist.edited =>
              /\ stored = hist.loaded
              /\ \A i \in 1..Len(saveTimers) :
                    JSONStringify(saveTimers[i].value) = hist.loaded.text

\* The save timer of the mount effects has written a loaded draft that holds
\* a widget.
C20_Witness ==
    /\ hist.op = "saveFire" /\ ~hist.edited
    /\ hist.loaded.present
    /\ JSONParse(hist.loaded.text).htmlContent # <<>>
    /\ stored = hist.loaded

(***************************************************************************)
(* Claims about the exported size                                          *)
(***************************************************************************)
\* C21: the aspect-fit step gives every image of a positive intrinsic size
\* an export width and an export height of at least 1 pixel.
C21_ExportSizeAtLeastOnePixel ==
    (fit.done /\ fit.w >= 1 /\ fit.h >= 1) =>
        (fit.width >= 1 /\ fit.height >= 1)

====
